---- MODULE Spec2Model ----
(***************************************************************************)
(* Lifecycle of a scratch org as implemented by ScratchOrgConfig           *)
(* (cumulusci/core/config/scratch_org_config.py): create_org, delete_org   *)
(* and generate_password acting on the org's config dictionary, the org    *)
(* history, and the temporary scratch definition files.                    *)
(***************************************************************************)
EXTENDS Integers, Sequences, FiniteSets, TLC

\* ------------------------------------------------------------------------
\* Bounds of the model
\* ------------------------------------------------------------------------
MaxHistory == 3     \* history records kept per org
MaxTempFiles == 1   \* temporary scratch definition files left on disk
MaxNow == 8         \* the clock's last tick
MaxCreated == 2     \* the latest tick an org is created at
MaxDays == 2        \* the longest duration asked for, in days
TicksPerDay == 2    \* the clock's ticks in a day

\* Python's None, for string-valued config entries
None == "None"

\* Python truthiness of an optional string
Truthy(v) == v # None /\ v # ""

\* ------------------------------------------------------------------------
\* JSON as json.loads sees it.  A parsed value is a record with a tag t:
\*   "err" (JSONDecodeError), "null", "str" (with s), "arr",
\*   "obj" (with m, a record used as the dict).
\* ------------------------------------------------------------------------
JErr == [t |-> "err"]
JNull == [t |-> "null"]
JArr == [t |-> "arr"]
JStr(s) == [t |-> "str", s |-> s]
JObj(m) == [t |-> "obj", m |-> m]

OUT_NOT_JSON == "not json"
OUT_ARRAY == "[]"
OUT_NOT_FOUND == "{\"message\":\"The requested resource does not exist\",\"name\":\"NOT_FOUND\"}"
OUT_OTHER_ERROR == "{\"message\":\"limit exceeded\",\"name\":\"LIMIT\"}"
OUT_NO_USERNAME == "{\"result\":{\"orgId\":\"00Dxx\"}}"
OUT_NO_ORGID == "{\"result\":{\"username\":\"u@x.com\"}}"
OUT_USERNAME_NULL == "{\"result\":{\"orgId\":\"00Dxx\",\"username\":null}}"
OUT_ORGID_NULL == "{\"result\":{\"orgId\":null,\"username\":\"u@x.com\"}}"
OUT_OK == "{\"result\":{\"orgId\":\"00Dxx\",\"username\":\"u@x.com\"}}"

\* the texts the external command may print on stdout
Stdouts ==
    { OUT_NOT_JSON, OUT_ARRAY, OUT_NOT_FOUND, OUT_OTHER_ERROR,
      OUT_NO_USERNAME, OUT_NO_ORGID, OUT_USERNAME_NULL, OUT_ORGID_NULL,
      OUT_OK }

\* json.loads on those texts
json_loads(s) ==
    CASE s = OUT_NOT_JSON -> JErr
      [] s = OUT_ARRAY -> JArr
      [] s = OUT_NOT_FOUND ->
            JObj([message |-> JStr("The requested resource does not exist"),
                  name |-> JStr("NOT_FOUND")])
      [] s = OUT_OTHER_ERROR ->
            JObj([message |-> JStr("limit exceeded"), name |-> JStr("LIMIT")])
      [] s = OUT_NO_USERNAME ->
            JObj([result |-> JObj([orgId |-> JStr("00Dxx")])])
      [] s = OUT_NO_ORGID ->
            JObj([result |-> JObj([username |-> JStr("u@x.com")])])
      [] s = OUT_USERNAME_NULL ->
            JObj([result |-> JObj([orgId |-> JStr("00Dxx"), username |-> JNull])])
      [] s = OUT_ORGID_NULL ->
            JObj([result |-> JObj([orgId |-> JNull, username |-> JStr("u@x.com")])])
      [] s = OUT_OK ->
            JObj([result |-> JObj([orgId |-> JStr("00Dxx"),
                                   username |-> JStr("u@x.com")])])
      [] OTHER -> JErr

\* dict.get(key) on a parsed object
dict_get(o, k) == IF k \in DOMAIN o.m THEN o.m[k] ELSE JNull

\* "key in dict"
dict_has(o, k) == k \in DOMAIN o.m

\* equality of a parsed value with a Python string
JIs(v, s) == v.t = "str" /\ v.s = s

\* a parsed string or null as stored into the config
JToConfig(v) == IF v.t = "str" THEN v.s ELSE None

\* Python truthiness of a parsed value (None and empty containers are falsy)
JTruthy(v) ==
    CASE v.t = "null" -> FALSE
      [] v.t = "str" -> v.s # ""
      [] v.t = "obj" -> DOMAIN v.m # {}
      [] OTHER -> FALSE

\* ------------------------------------------------------------------------
\* The external command executor (cumulusci.core.sfdx.sfdx)
\* ------------------------------------------------------------------------
\* what a call gives back: a finished process, or the call itself faulting
ExecResults ==
    [fault : {FALSE}, returncode : {0, 1}, stdout : Stdouts]
        \cup {[fault |-> TRUE, returncode |-> 0, stdout |-> ""]}

\* the create command ended with return code 0 and a result that is accepted
Accepted(res) ==
    /\ ~res.fault
    /\ res.returncode = 0
    /\ res.stdout \in {OUT_OK, OUT_ORGID_NULL}

\* password generation and deletion print free text
TextResults ==
    [fault : {FALSE}, returncode : {0, 1}, stdout : {""}]
        \cup {[fault |-> TRUE, returncode |-> 0, stdout |-> ""]}

CMD_CREATE == "force:org:create --json"
CMD_PASSWORD == "force:user:password:generate"
CMD_DELETE == "force:org:delete -p"

\* ------------------------------------------------------------------------
\* Exceptions, as the caller sees them
\* ------------------------------------------------------------------------
NoException == [type |-> "none", msg |-> "", detail |-> ""]
ScratchOrgException(msg, detail) ==
    [type |-> "ScratchOrgException", msg |-> msg, detail |-> detail]
AttributeError == [type |-> "AttributeError", msg |-> "", detail |-> ""]
Fault == [type |-> "Fault", msg |-> "", detail |-> ""]

FAILED_TO_CREATE_SCRATCH_ORG == "Failed to create scratch org"
MSG_MISSING_CONFIG_FILE == "is missing a config_file"
MSG_HASHES_REQUIRED == "Snapshot hashes are required when use_snapshot_hashes is True"
MSG_HASH_NO_NAME == "Snapshot hashes must contain a snapshot with a SnapshotName"
MSG_HASH_NO_HASH == "Snapshot hashes must contain a snapshot_hash"
MSG_DEVHUB == "Ensure you are connected using a valid API version on an active Dev Hub."
MSG_NO_USERNAME == "SFDX claimed to be successful but there was no username in the output"
MSG_DELETE_FAILED == "Failed to delete scratch org"

VARIABLES
    config,     \* self.config, the org's configuration dictionary
    history,    \* the records handed to add_action_to_history, in order
    tempfiles,  \* temporary scratch definition files that exist on disk
    now,        \* datetime.utcnow(); no operation of the lifecycle reads
                \* the clock except to stamp date_created
    last,       \* the last call: what it raised, what it ran, in order
    last_create \* how the most recent create_org call ended

vars == <<config, history, tempfiles, now, last, last_create>>


\* ------------------------------------------------------------------------
\* The config dictionary
\* ------------------------------------------------------------------------
\* entries of snapshot_hashes:
\*   {"snapshot": {"SnapshotName": ..}, "snapshot_hash": ..}
HASH_BASE == [SnapshotName |-> "Base", snapshot_hash |-> "abc123"]
HASH_HASHED == [SnapshotName |-> "Hashed", snapshot_hash |-> "def456"]
HASH_NO_NAME == [SnapshotName |-> None, snapshot_hash |-> "abc123"]
HASH_NO_HASH == [SnapshotName |-> "Base", snapshot_hash |-> None]

\* the request fields a caller may have set before the first call
RequestConfigs ==
    { r \in [config_file : {None, "orgs/dev.json"},
             snapshot_name : {None, "Base"},
             use_snapshot_hashes : BOOLEAN,
             snapshot_hashes : { <<>>, <<HASH_BASE, HASH_HASHED>>,
                                 <<HASH_BASE, HASH_NO_NAME>>,
                                 <<HASH_NO_NAME, HASH_NO_HASH>> },
             set_password : BOOLEAN,
             \* the lifecycle leaves days unset; SpecAging varies it
             days : {<<>>}] :
        /\ (r.config_file = None) =>
              (r.snapshot_name = None /\ ~r.use_snapshot_hashes /\ ~r.set_password)
        /\ (~r.use_snapshot_hashes) => (r.snapshot_hashes = <<>>)
        /\ r.use_snapshot_hashes => (r.snapshot_name = None)
        /\ r.set_password => (r.snapshot_name = None /\ ~r.use_snapshot_hashes) }

\* a freshly constructed org config: nothing created yet
NewConfig(r) ==
    [config_file |-> r.config_file,
     snapshot_name |-> r.snapshot_name,
     use_snapshot_hashes |-> r.use_snapshot_hashes,
     snapshot_hashes |-> r.snapshot_hashes,
     set_password |-> r.set_password,
     days |-> r.days,
     scratch_org_type |-> None,
     org_id |-> None,
     username |-> None,
     date_created |-> <<>>,
     instance_url |-> None,
     created |-> FALSE,
     password_failed |-> FALSE]

\* ------------------------------------------------------------------------
\* Temporary files (NamedTemporaryFile(delete=False))
\* ------------------------------------------------------------------------
TempNames ==
    << "/tmp/tmp1.json", "/tmp/tmp2.json", "/tmp/tmp3.json", "/tmp/tmp4.json" >>

\* a name no existing file has
NewTempFile(files) ==
    TempNames[CHOOSE i \in 1..Len(TempNames) :
                 /\ TempNames[i] \notin files
                 /\ \A j \in 1..(i - 1) : TempNames[j] \in files]

\* ------------------------------------------------------------------------
\* What a call does besides running commands, in program order
\* ------------------------------------------------------------------------
EV_HISTORY == "add_action_to_history"
EV_UNLINK == "os.unlink"
EV_SAVE == "save"

\* ------------------------------------------------------------------------
\* Aging: days, expires, expired, active, days_alive
\* ------------------------------------------------------------------------
\* Times are counted in ticks, TicksPerDay ticks to the day; date_created
\* and days are <<>> while unset.
DefaultDays == 1

\* the days property: config.setdefault("days", 1)
days(cfg) == IF cfg.days = <<>> THEN DefaultDays ELSE cfg.days[1]

\* the config once the days property was read
days_read(cfg) == [cfg EXCEPT !.days = <<days(cfg)>>]

\* the expires property: <<>> for None
expires(cfg) ==
    IF cfg.date_created # <<>>
    THEN << cfg.date_created[1] + days(cfg) * TicksPerDay >>
    ELSE <<>>

\* (faulty variant of expired: the org counts as expired at the very
\* instant it expires)
expired_at_expiry(cfg, t) == expires(cfg) # <<>> /\ expires(cfg)[1] <= t

\* the expired property at time t
expired(cfg, t) == expires(cfg) # <<>> /\ expires(cfg)[1] < t

\* the truth value of the active property at time t
active(cfg, t) == cfg.date_created # <<>> /\ ~expired(cfg, t)

\* (faulty variant of days_alive: the day of creation counts as day 0)
days_alive_from_zero(cfg, t) ==
    IF cfg.date_created # <<>> /\ ~expired(cfg, t)
    THEN << (t - cfg.date_created[1]) \div TicksPerDay >>
    ELSE <<>>

\* the days_alive property at time t: <<>> for None; timedelta.days is the
\* whole number of days in the difference, rounded down
days_alive(cfg, t) ==
    IF cfg.date_created # <<>> /\ ~expired(cfg, t)
    THEN << ((t - cfg.date_created[1]) \div TicksPerDay) + 1 >>
    ELSE <<>>

\* format_org_days: "days_alive/days" while days_alive is truthy (neither
\* None nor 0), else days alone
format_org_days(cfg, t) ==
    LET alive == days_alive(cfg, t)
    IN  IF alive # <<>> /\ alive[1] # 0
        THEN ToString(alive[1]) \o "/" \o ToString(days(cfg))
        ELSE ToString(days(cfg))

\* the config once one of expires, expired, active, days_alive was read:
\* days is read, and so defaulted, only when date_created is set
aging_read(cfg) == IF cfg.date_created # <<>> THEN days_read(cfg) ELSE cfg

\* ------------------------------------------------------------------------
\* generate_password
\* ------------------------------------------------------------------------
\* (faulty variant of generate_password: password_failed is not consulted)
generate_password_always(cfg, pw) ==
    IF pw.fault
    THEN [config |-> cfg, raised |-> Fault, events |-> <<CMD_PASSWORD>>]
    ELSE IF pw.returncode # 0
    THEN [config |-> [cfg EXCEPT !.password_failed = TRUE],
          raised |-> NoException, events |-> <<CMD_PASSWORD>>]
    ELSE [config |-> cfg, raised |-> NoException, events |-> <<CMD_PASSWORD>>]

\* (faulty variant of generate_password: a non-zero return code is raised)
generate_password_raising(cfg, pw) ==
    IF cfg.password_failed
    THEN [config |-> cfg, raised |-> NoException, events |-> <<>>]
    ELSE IF pw.fault
    THEN [config |-> cfg, raised |-> Fault, events |-> <<CMD_PASSWORD>>]
    ELSE IF pw.returncode # 0
    THEN [config |-> [cfg EXCEPT !.password_failed = TRUE],
          raised |-> ScratchOrgException("Failed to set password", ""),
          events |-> <<CMD_PASSWORD>>]
    ELSE [config |-> cfg, raised |-> NoException, events |-> <<CMD_PASSWORD>>]
generate_password(cfg, pw) ==
    IF cfg.password_failed
    THEN [config |-> cfg, raised |-> NoException, events |-> <<>>]
    ELSE IF pw.fault
    THEN [config |-> cfg, raised |-> Fault, events |-> <<CMD_PASSWORD>>]
    ELSE IF pw.returncode # 0
    THEN [config |-> [cfg EXCEPT !.password_failed = TRUE],
          raised |-> NoException, events |-> <<CMD_PASSWORD>>]
    ELSE [config |-> cfg, raised |-> NoException, events |-> <<CMD_PASSWORD>>]

\* ------------------------------------------------------------------------
\* create_org
\* ------------------------------------------------------------------------
\* org_action_info as first built
org_create_action_info(cfg) ==
    [action_type |-> "OrgCreate",
     status |-> None,
     exception |-> None,
     path |-> cfg.config_file,
     snapshot |-> None,
     sf_command |-> <<>>,
     org_id |-> None,
     username |-> None]

\* raise_error(): classify a failed creation, record it, raise
raise_error(info, stdout) ==
    LET info1 == [info EXCEPT !.status = "error"]
        output == json_loads(stdout)
        devhub == ScratchOrgException(MSG_DEVHUB, "")
        generic == ScratchOrgException(FAILED_TO_CREATE_SCRATCH_ORG, stdout)
    IN  IF output.t = "err"
        THEN [records |-> <<>>, raised |-> generic, events |-> <<>>]
        ELSE IF output.t # "obj"
        THEN [records |-> <<>>, raised |-> AttributeError, events |-> <<>>]
        ELSE IF /\ JIs(dict_get(output, "message"),
                       "The requested resource does not exist")
                /\ JIs(dict_get(output, "name"), "NOT_FOUND")
        THEN [records |-> << [info1 EXCEPT !.exception = devhub.msg] >>,
              raised |-> devhub, events |-> <<EV_HISTORY>>]
        ELSE [records |-> << [info1 EXCEPT !.exception = generic.msg] >>,
              raised |-> generic, events |-> <<EV_HISTORY>>]

\* self.snapshot_hashes[-1], the entry the snapshot is taken from
\* (faulty variant: the first entry is taken)
hashed_snapshot_first(cfg) == cfg.snapshot_hashes[1]

hashed_snapshot(cfg) == cfg.snapshot_hashes[Len(cfg.snapshot_hashes)]

\* entering temp_scratchdef_file(): up to the yield
temp_scratchdef_file(cfg, info, files, write_fault) ==
    LET hashed == hashed_snapshot(cfg)
        stop(msg) == [config |-> cfg, info |-> info, tempfiles |-> files,
                      temp |-> <<>>, raised |-> ScratchOrgException(msg, "")]
        cfg1 == IF cfg.use_snapshot_hashes
                THEN [cfg EXCEPT !.snapshot_name = hashed.SnapshotName]
                ELSE cfg
        temp_file_path == NewTempFile(files)
        info1 == [info EXCEPT !.snapshot = cfg1.snapshot_name]
    IN  IF cfg.use_snapshot_hashes /\ cfg.snapshot_hashes = <<>>
        THEN stop(MSG_HASHES_REQUIRED)
        ELSE IF cfg.use_snapshot_hashes /\ ~Truthy(hashed.SnapshotName)
        THEN stop(MSG_HASH_NO_NAME)
        ELSE IF cfg.use_snapshot_hashes /\ ~Truthy(hashed.snapshot_hash)
        THEN stop(MSG_HASH_NO_HASH)
        ELSE IF Truthy(cfg1.snapshot_name)
        THEN IF write_fault
             THEN \* json.dump fails inside the NamedTemporaryFile block,
                  \* before the try/finally that unlinks the file
                  [config |-> cfg1, info |-> info1,
                   tempfiles |-> files \cup {temp_file_path},
                   temp |-> <<temp_file_path>>, raised |-> Fault]
             ELSE [config |-> cfg1,
                   info |-> [info1 EXCEPT !.path = temp_file_path],
                   tempfiles |-> files \cup {temp_file_path},
                   temp |-> <<temp_file_path>>, raised |-> NoException]
        ELSE [config |-> cfg1, info |-> info, tempfiles |-> files,
              temp |-> <<>>, raised |-> NoException]

\* leaving temp_scratchdef_file(): the finally clause around the yield
temp_scratchdef_exit(entered) ==
    IF entered.temp # <<>> /\ entered.raised = NoException
    THEN [tempfiles |-> entered.tempfiles \ {entered.temp[1]},
          events |-> <<EV_UNLINK>>]
    ELSE [tempfiles |-> entered.tempfiles, events |-> <<>>]

\* (faulty variant of create_body: org_id, username and date_created are
\* stored before the username is tested for null)
create_body_store_first(cfg, info, res, args_fault, t) ==
    LET info1 == [info EXCEPT !.sf_command =
                     << [command |-> CMD_CREATE, return_code |-> res.returncode,
                         output |-> res.stdout] >>]
        failed == raise_error(info1, res.stdout)
        fail == [config |-> cfg, records |-> failed.records,
                 raised |-> failed.raised,
                 events |-> <<CMD_CREATE>> \o failed.events]
        result == json_loads(res.stdout)
        r == dict_get(result, "result")
        cfg1 == [cfg EXCEPT !.org_id = JToConfig(dict_get(r, "orgId")),
                            !.username = JToConfig(dict_get(r, "username")),
                            !.date_created = <<t>>]
        info2 == [info1 EXCEPT !.status = "success",
                               !.org_id = cfg1.org_id,
                               !.username = cfg1.username]
    IN  IF args_fault
        THEN [config |-> cfg, records |-> <<>>, raised |-> Fault,
              events |-> <<>>]
        ELSE IF res.fault
        THEN [config |-> cfg, records |-> <<>>, raised |-> Fault,
              events |-> <<CMD_CREATE>>]
        ELSE IF res.returncode # 0
        THEN fail
        ELSE IF result.t = "err"
        THEN fail
        ELSE IF result.t # "obj"
        THEN [config |-> cfg, records |-> <<>>, raised |-> AttributeError,
              events |-> <<CMD_CREATE>>]
        ELSE IF ~JTruthy(r) \/ ~dict_has(r, "username") \/ ~dict_has(r, "orgId")
        THEN fail
        ELSE IF dict_get(r, "username").t = "null"
        THEN [config |-> cfg1, records |-> <<>>,
              raised |-> ScratchOrgException(MSG_NO_USERNAME, ""),
              events |-> <<CMD_CREATE>>]
        ELSE [config |-> cfg1, records |-> <<info2>>,
              raised |-> NoException, events |-> <<CMD_CREATE, EV_HISTORY>>]

\* the body of the with block: build arguments, run the command, classify
create_body(cfg, info, res, args_fault, t) ==
    LET info1 == [info EXCEPT !.sf_command =
                     << [command |-> CMD_CREATE, return_code |-> res.returncode,
                         output |-> res.stdout] >>]
        failed == raise_error(info1, res.stdout)
        fail == [config |-> cfg, records |-> failed.records,
                 raised |-> failed.raised,
                 events |-> <<CMD_CREATE>> \o failed.events]
        result == json_loads(res.stdout)
        r == dict_get(result, "result")
        cfg1 == [cfg EXCEPT !.org_id = JToConfig(dict_get(r, "orgId")),
                            !.username = JToConfig(dict_get(r, "username")),
                            !.date_created = <<t>>]
        info2 == [info1 EXCEPT !.status = "success",
                               !.org_id = cfg1.org_id,
                               !.username = cfg1.username]
    IN  IF args_fault
        THEN [config |-> cfg, records |-> <<>>, raised |-> Fault,
              events |-> <<>>]
        ELSE IF res.fault
        THEN [config |-> cfg, records |-> <<>>, raised |-> Fault,
              events |-> <<CMD_CREATE>>]
        ELSE IF res.returncode # 0
        THEN fail
        ELSE IF result.t = "err"
        THEN fail
        ELSE IF result.t # "obj"
        THEN [config |-> cfg, records |-> <<>>, raised |-> AttributeError,
              events |-> <<CMD_CREATE>>]
        ELSE IF ~JTruthy(r) \/ ~dict_has(r, "username") \/ ~dict_has(r, "orgId")
        THEN fail
        ELSE IF dict_get(r, "username").t = "null"
        THEN [config |-> cfg, records |-> <<>>,
              raised |-> ScratchOrgException(MSG_NO_USERNAME, ""),
              events |-> <<CMD_CREATE>>]
        ELSE [config |-> cfg1, records |-> <<info2>>,
              raised |-> NoException, events |-> <<CMD_CREATE, EV_HISTORY>>]

\* (faulty variant of create_finish: the created flag is never set)
create_finish_no_flag(cfg, pw) ==
    IF cfg.set_password
    THEN generate_password(cfg, pw)
    ELSE [config |-> cfg, raised |-> NoException, events |-> <<>>]
\* after the with block: optional password, then the created flag
create_finish(cfg, pw) ==
    LET p == IF cfg.set_password
             THEN generate_password(cfg, pw)
             ELSE [config |-> cfg, raised |-> NoException, events |-> <<>>]
    IN  IF p.raised # NoException
        THEN p
        ELSE [p EXCEPT !.config = [p.config EXCEPT !.created = TRUE]]

\* the whole of create_org
create_org(cfg, files, t, res, pw, fault) ==
    LET cfg0 == IF ~Truthy(cfg.scratch_org_type)
                THEN [cfg EXCEPT !.scratch_org_type = "workspace"]
                ELSE cfg
        \* org_action_info reads self.days
        cfg1 == days_read(cfg0)
        entered == temp_scratchdef_file(cfg1, org_create_action_info(cfg1),
                                        files, fault = "write")
        body == create_body(entered.config, entered.info, res,
                            fault = "args", t)
        left == temp_scratchdef_exit(entered)
        fin == create_finish(body.config, pw)
    IN  IF ~Truthy(cfg.config_file)
        THEN [config |-> cfg, records |-> <<>>, tempfiles |-> files,
              raised |-> ScratchOrgException(MSG_MISSING_CONFIG_FILE, ""),
              events |-> <<>>, temp |-> <<>>]
        ELSE IF entered.raised # NoException
        THEN [config |-> entered.config, records |-> <<>>,
              tempfiles |-> entered.tempfiles, raised |-> entered.raised,
              events |-> <<>>, temp |-> entered.temp]
        ELSE IF body.raised # NoException
        THEN [config |-> body.config, records |-> body.records,
              tempfiles |-> left.tempfiles, raised |-> body.raised,
              events |-> body.events \o left.events, temp |-> entered.temp]
        ELSE [config |-> fin.config, records |-> body.records,
              tempfiles |-> left.tempfiles, raised |-> fin.raised,
              events |-> body.events \o left.events \o fin.events,
              temp |-> entered.temp]

\* ------------------------------------------------------------------------
\* delete_org
\* ------------------------------------------------------------------------
org_delete_action_info(cfg) ==
    [action_type |-> "OrgDelete",
     status |-> None,
     exception |-> None,
     path |-> None,
     snapshot |-> None,
     sf_command |-> <<>>,
     org_id |-> cfg.org_id,
     username |-> None]

\* delete_org returns at once when the org was never created
\* (faulty variant: the test reads username instead of created)
delete_skipped_by_username(cfg) == ~Truthy(cfg.username)

delete_skipped(cfg) == ~cfg.created

\* the record of a failed deletion
\* (faulty variant: the status is never set)
delete_error_info_no_status(info, exc) == [info EXCEPT !.exception = exc.msg]

delete_error_info(info, exc) ==
    [info EXCEPT !.status = "error", !.exception = exc.msg]

\* the config once the org is deleted
\* (faulty variant: the deletion also resets password_failed)
delete_cleared_with_password(cfg) ==
    [cfg EXCEPT !.created = FALSE,
                !.username = None,
                !.date_created = <<>>,
                !.instance_url = None,
                !.password_failed = FALSE]

delete_cleared(cfg) ==
    [cfg EXCEPT !.created = FALSE,
                !.username = None,
                !.date_created = <<>>,
                !.instance_url = None]

delete_org(cfg, res) ==
    LET info == [org_delete_action_info(cfg) EXCEPT !.sf_command =
                    << [command |-> CMD_DELETE, return_code |-> res.returncode,
                        output |-> res.stdout] >>]
        exc == ScratchOrgException(MSG_DELETE_FAILED, "")
    IN  IF delete_skipped(cfg)
        THEN [config |-> cfg, records |-> <<>>, raised |-> NoException,
              events |-> <<>>]
        ELSE IF res.fault
        THEN [config |-> cfg, records |-> <<>>, raised |-> Fault,
              events |-> <<CMD_DELETE>>]
        ELSE IF res.returncode # 0
        THEN [config |-> cfg,
              records |-> << delete_error_info(info, exc) >>,
              raised |-> exc, events |-> <<CMD_DELETE, EV_HISTORY>>]
        ELSE \* self.save() persists the config as it is once cleared
             [config |-> delete_cleared(cfg),
              records |-> << [info EXCEPT !.status = "success"] >>,
              raised |-> NoException,
              events |-> <<CMD_DELETE, EV_HISTORY, EV_SAVE>>]

\* ------------------------------------------------------------------------
\* The state machine
\* ------------------------------------------------------------------------
\* Of the records of earlier calls the history keeps the action and its
\* status; the full records of the last call are in last.records.  No step
\* reads a record once it is handed over.
Summary(rec) ==
    [action_type |-> rec.action_type, status |-> rec.status]

Summaries(recs) == [i \in 1..Len(recs) |-> Summary(recs[i])]

INSTANCE_URL == "https://cs1.salesforce.example"

NoResult == [fault |-> FALSE, returncode |-> 0, stdout |-> ""]

NoCall == [op |-> "none", raised |-> "none", msg |-> "", detail |-> "",
           events |-> <<>>, returncode |-> <<>>, stdout |-> "",
           records |-> <<>>, temp |-> <<>>]

\* the return code of the call's main command, when it ran to completion
MainCode(events, cmd, res) ==
    IF events # <<>> /\ events[1] = cmd /\ ~res.fault
    THEN <<res.returncode>> ELSE <<>>

\* what that command printed on stdout
MainOut(events, cmd, res) ==
    IF events # <<>> /\ events[1] = cmd /\ ~res.fault
    THEN res.stdout ELSE ""

Init ==
    /\ \E r \in RequestConfigs : config = NewConfig(r)
    /\ history = <<>>
    /\ tempfiles = {}
    /\ now = 0
    /\ last = NoCall
    /\ last_create = "none"

\* what may happen to one create_org call: what the create command gives,
\* what the password command gives when one is requested, or a fault while
\* the scratch definition is written or the arguments are built
CreateInputs(cfg) ==
    { in \in [res : ExecResults, pw : TextResults, fault : {"none"}] :
        \* the password command is reached only after an accepted creation
        (in.pw # NoResult) => (cfg.set_password /\ Accepted(in.res)) }
      \cup { [res |-> NoResult, pw |-> NoResult, fault |-> f] :
               f \in {"write", "args"} }

\* a caller calls create_org()
CreateOrg ==
    /\ Len(history) < MaxHistory
    /\ \E in \in CreateInputs(config) :
         LET out == create_org(config, tempfiles, now, in.res, in.pw, in.fault)
         IN  /\ Cardinality(out.tempfiles) <= MaxTempFiles
             /\ config' = out.config
             /\ history' = history \o Summaries(out.records)
             /\ tempfiles' = out.tempfiles
             /\ last' = [op |-> "create_org", raised |-> out.raised.type,
                         msg |-> out.raised.msg, detail |-> out.raised.detail,
                         events |-> out.events,
                         returncode |-> MainCode(out.events, CMD_CREATE, in.res),
                         stdout |-> MainOut(out.events, CMD_CREATE, in.res),
                         records |-> out.records, temp |-> out.temp]
             /\ last_create' = IF out.raised = NoException
                               THEN "returned" ELSE "raised"
    /\ UNCHANGED now

\* a caller calls delete_org()
DeleteOrg ==
    /\ Len(history) < MaxHistory
    /\ \E res \in TextResults :
         LET out == delete_org(config, res)
         IN  /\ config' = out.config
             /\ history' = history \o Summaries(out.records)
             /\ last' = [op |-> "delete_org", raised |-> out.raised.type,
                         msg |-> out.raised.msg, detail |-> out.raised.detail,
                         events |-> out.events,
                         returncode |-> MainCode(out.events, CMD_DELETE, res),
                         stdout |-> MainOut(out.events, CMD_DELETE, res),
                         records |-> out.records, temp |-> <<>>]
    /\ UNCHANGED <<tempfiles, now, last_create>>

\* a caller calls generate_password() on an org whose username is stored
\* (with none stored, self.username is resolved by the base class)
GeneratePassword ==
    /\ Truthy(config.username)
    /\ \E pw \in TextResults :
         LET out == generate_password(config, pw)
         IN  /\ config' = out.config
             /\ last' = [op |-> "generate_password", raised |-> out.raised.type,
                         msg |-> out.raised.msg, detail |-> out.raised.detail,
                         events |-> out.events,
                         returncode |-> MainCode(out.events, CMD_PASSWORD, pw),
                         stdout |-> MainOut(out.events, CMD_PASSWORD, pw),
                         records |-> <<>>, temp |-> <<>>]
    /\ UNCHANGED <<history, tempfiles, now, last_create>>

\* the org's details are read from the platform once the org exists
\* (the sfdx_info property of the base class), which fills in instance_url
SfdxInfo ==
    /\ config.created
    /\ config.instance_url = None
    /\ config' = [config EXCEPT !.instance_url = INSTANCE_URL]
    /\ last' = [NoCall EXCEPT !.op = "sfdx_info"]
    /\ UNCHANGED <<history, tempfiles, now, last_create>>

Next ==
    \/ CreateOrg
    \/ DeleteOrg
    \/ GeneratePassword
    \/ SfdxInfo

Spec == Init /\ [][Next]_vars

\* ------------------------------------------------------------------------
\* Aging of an org: the clock advances and the aging properties are read
\* ------------------------------------------------------------------------
\* the config of an org as loaded: never created, or created at some tick
\* by an earlier run, with days unset or set
LoadedConfigs ==
    LET fresh == NewConfig([config_file |-> "orgs/dev.json",
                            snapshot_name |-> None,
                            use_snapshot_hashes |-> FALSE,
                            snapshot_hashes |-> <<>>,
                            set_password |-> FALSE,
                            days |-> <<>>])
        Days == {<<>>} \cup { <<d>> : d \in 1..MaxDays }
    IN  { [fresh EXCEPT !.days = d] : d \in Days }
          \cup { [fresh EXCEPT !.days = d,
                               !.scratch_org_type = "workspace",
                               !.org_id = "00Dxx",
                               !.username = "u@x.com",
                               !.date_created = <<c>>,
                               !.created = TRUE] :
                   d \in Days, c \in 0..MaxCreated }

InitAging ==
    /\ config \in LoadedConfigs
    /\ history = <<>>
    /\ tempfiles = {}
    /\ now = 0
    /\ last = NoCall
    /\ last_create = "none"

\* what the last read of a property gave, as a sequence: <<>> for None
Read(op, value) == [op |-> op, value |-> value]

\* datetime.datetime.utcnow() moves on
Tick ==
    /\ now < MaxNow
    /\ now' = now + 1
    /\ last' = Read("utcnow", <<>>)
    /\ UNCHANGED <<config, history, tempfiles, last_create>>

\* a caller reads the days property
ReadDays ==
    /\ config' = days_read(config)
    /\ last' = Read("days", <<days(config)>>)
    /\ UNCHANGED <<history, tempfiles, now, last_create>>

\* a caller reads the expired property
ReadExpired ==
    /\ config' = aging_read(config)
    /\ last' = Read("expired", <<expired(config, now)>>)
    /\ UNCHANGED <<history, tempfiles, now, last_create>>

\* a caller reads the active property
ReadActive ==
    /\ config' = aging_read(config)
    /\ last' = Read("active", <<active(config, now)>>)
    /\ UNCHANGED <<history, tempfiles, now, last_create>>

\* a caller reads the days_alive property
ReadDaysAlive ==
    /\ config' = aging_read(config)
    /\ last' = Read("days_alive", days_alive(config, now))
    /\ UNCHANGED <<history, tempfiles, now, last_create>>

\* a caller asks for the org's days as displayed
FormatOrgDays ==
    /\ config' = days_read(config)
    /\ last' = Read("format_org_days", <<format_org_days(config, now)>>)
    /\ UNCHANGED <<history, tempfiles, now, last_create>>

NextAging ==
    \/ Tick
    \/ FormatOrgDays
    \/ ReadDays
    \/ ReadExpired
    \/ ReadActive
    \/ ReadDaysAlive

SpecAging == InitAging /\ [][NextAging]_vars
\* ------------------------------------------------------------------------
\* The arguments of the create command (_build_org_create_args)
\* ------------------------------------------------------------------------
\* A definition document is the set of the keys it declares.
ScratchDefs == { {"orgName", "edition"}, {"orgName", "edition", "adminEmail"} }

\* what ActionScratchDefReference.to_snapshot_scratchdef may write into the
\* temporary definition of a snapshot
SnapshotScratchDefs == { {"snapshot", "description"},
                         {"snapshot", "description", "adminEmail"} }

\* the fields of the config the builder reads
ArgConfigs ==
    [config_file : {"orgs/dev.json"},
     snapshot_name : {None, "Base"},
     email_address : {None, "admin@x.com"},
     devhub : {None, "hub@x.com"},
     devhub_service : {None, "service@x.com"},
     namespaced : BOOLEAN,
     noancestors : BOOLEAN,
     days : {<<>>, <<MaxDays>>},
     release : {None, "preview"},
     sfdx_alias : {None, "proj__dev"},
     default : BOOLEAN,
     instance : {None, "cs1"}]

\* os.environ.get("SFDX_SIGNUP_INSTANCE")
SignupInstances == {None, "cs2"}

\* _choose_devhub_username: the org's devhub, else the devhub service's
\* username, None when no such service is configured
choose_devhub_username(cfg) ==
    IF Truthy(cfg.devhub) THEN cfg.devhub ELSE cfg.devhub_service

\* the arguments added under a condition
ArgsIf(cond, args) == IF cond THEN args ELSE <<>>

\* _build_org_create_args(config_file_path), reading the files on disk
build_org_create_args(cfg, config_file_path, files, env_instance) ==
    LET devhub_username == choose_devhub_username(cfg)
        \* open(self.config_file): the static file, whatever path is passed
        org_def_data == files[cfg.config_file]
        org_def_has_email == "adminEmail" \in org_def_data
        instance == IF Truthy(cfg.instance) THEN cfg.instance ELSE env_instance
    IN  << "-f",
           IF Truthy(config_file_path) THEN config_file_path ELSE cfg.config_file,
           "-w", "120" >>
        \o ArgsIf(Truthy(devhub_username),
                  << "--targetdevhubusername", devhub_username >>)
        \o ArgsIf(~cfg.namespaced, << "-n" >>)
        \o ArgsIf(cfg.noancestors, << "--noancestors" >>)
        \o ArgsIf(days(cfg) # 0, << "--durationdays", ToString(days(cfg)) >>)
        \o ArgsIf(Truthy(cfg.release), << "release=" \o cfg.release >>)
        \o ArgsIf(Truthy(cfg.sfdx_alias), << "-a", cfg.sfdx_alias >>)
        \o ArgsIf(Truthy(cfg.email_address) /\ ~org_def_has_email,
                  << "adminEmail=" \o cfg.email_address >>)
        \o ArgsIf(cfg.default, << "-s" >>)
        \o ArgsIf(Truthy(instance), << "instance=" \o instance >>)

InitArgs ==
    /\ config \in ArgConfigs
    /\ history = <<>>
    /\ tempfiles = {}
    /\ now = 0
    /\ last = NoCall
    /\ last_create = "none"

\* create_org builds the arguments inside its with block: with a snapshot
\* the temporary definition's path is passed, else no path
BuildArgs ==
    /\ \E static \in ScratchDefs, generated \in SnapshotScratchDefs,
          env_instance \in SignupInstances :
         LET temp_file_path == NewTempFile(tempfiles)
             files == IF Truthy(config.snapshot_name)
                      THEN (config.config_file :> static)
                              @@ (temp_file_path :> generated)
                      ELSE (config.config_file :> static)
             args == IF Truthy(config.snapshot_name)
                     THEN build_org_create_args(config, temp_file_path,
                                                files, env_instance)
                     ELSE build_org_create_args(config, None,
                                                files, env_instance)
         IN  last' = [op |-> "_build_org_create_args", args |-> args,
                      files |-> files]
    /\ config' = days_read(config)
    /\ UNCHANGED <<history, tempfiles, now, last_create>>

NextArgs == BuildArgs

SpecArgs == InitArgs /\ [][NextArgs]_vars
\* ------------------------------------------------------------------------
\* Properties
\* ------------------------------------------------------------------------
\* how often an event occurs in a call
Occurrences(events, e) == Cardinality({i \in DOMAIN events : events[i] = e})

\* the last call ran its main command and the command ended with this code
Returned(op, code) == last.op = op /\ last.returncode = <<code>>

\* the last call raised a failure of the scratch org with one of these messages
RaisedScratchOrg(msgs) ==
    last.raised = "ScratchOrgException" /\ last.msg \in msgs

\* the last call handed exactly one record to the history, with this status
OneRecord(status) ==
    /\ Len(last.records) = 1
    /\ last.records[1].status = status
    /\ Occurrences(last.events, EV_HISTORY) = 1

\* C1: created is true if and only if org_id and username are both
\* non-empty and the most recent create_org attempt succeeded.
C1_CreatedIffIdentity ==
    config.created <=>
        /\ Truthy(config.org_id)
        /\ Truthy(config.username)
        /\ last_create = "returned"

\* C2: a create_org attempt whose command ends with a non-zero return code
\* hands exactly one error record to the history, raises the creation
\* failure or the devhub failure, and does not set created.
C2_NonZeroCodeRecorded ==
    [][ (last'.op = "create_org" /\ last'.returncode = <<1>>) =>
          /\ Len(last'.records) = 1
          /\ last'.records[1].status = "error"
          /\ Occurrences(last'.events, EV_HISTORY) = 1
          /\ last'.raised = "ScratchOrgException"
          /\ last'.msg \in {FAILED_TO_CREATE_SCRATCH_ORG, MSG_DEVHUB}
          /\ (~config.created => ~config'.created) ]_vars

\* C3: a create_org attempt whose command ends with return code 0 and a
\* stdout that is not JSON raises the creation failure, with exactly one
\* error record handed to the history before it.
C3_UnparseableRecorded ==
    (Returned("create_org", 0) /\ json_loads(last.stdout).t = "err") =>
        /\ RaisedScratchOrg({FAILED_TO_CREATE_SCRATCH_ORG})
        /\ OneRecord("error")

\* C4: a create_org attempt whose command ends with return code 0 and a
\* result whose username is null raises a creation failure, with an error
\* record (command, return code, output, exception message) handed to the
\* history before it.
C4_NullUsernameRecorded ==
    (Returned("create_org", 0) /\ last.stdout = OUT_USERNAME_NULL) =>
        /\ RaisedScratchOrg({MSG_NO_USERNAME, FAILED_TO_CREATE_SCRATCH_ORG})
        /\ OneRecord("error")
        /\ last.records[1].exception = last.msg
        /\ last.records[1].sf_command =
              << [command |-> CMD_CREATE, return_code |-> 0,
                  output |-> last.stdout] >>

\* C5: after a delete_org whose command ends with return code 0, one
\* success record is in the history, username, org_id, date_created and
\* instance_url are cleared, created is false and the config is saved.
C5_DeleteClears ==
    Returned("delete_org", 0) =>
        /\ OneRecord("success")
        /\ last.raised = "none"
        /\ config.username = None
        /\ config.org_id = None
        /\ config.date_created = <<>>
        /\ config.instance_url = None
        /\ ~config.created
        /\ last.events = <<CMD_DELETE, EV_HISTORY, EV_SAVE>>

\* C6: delete_org on an org whose created is false returns without
\* raising, runs no command, hands no record to the history and changes
\* no field of the config.
C6_DeleteNotCreatedIsNoOp ==
    [][ (last'.op = "delete_org" /\ ~config.created) =>
          /\ last'.raised = "none"
          /\ last'.events = <<>>
          /\ last'.records = <<>>
          /\ history' = history
          /\ config' = config
          /\ tempfiles' = tempfiles ]_vars

\* a delete_org call was skipped on an org that was created and deleted
C6_Witness ==
    /\ last.op = "delete_org"
    /\ last.events = <<>>
    /\ last.raised = "none"
    /\ ~config.created
    /\ Len(history) = 2
    /\ history[2] = [action_type |-> "OrgDelete", status |-> "success"]

\* C7: a delete_org on a created org whose command ends with a non-zero
\* return code hands exactly one error record to the history, raises the
\* deletion failure, and leaves created, username, org_id, date_created
\* and instance_url as they were.
C7_DeleteFailureKeepsOrg ==
    [][ (last'.op = "delete_org" /\ last'.returncode = <<1>>) =>
          /\ config.created
          /\ last'.raised = "ScratchOrgException"
          /\ last'.msg = MSG_DELETE_FAILED
          /\ last'.events = <<CMD_DELETE, EV_HISTORY>>
          /\ Len(last'.records) = 1
          /\ last'.records[1].action_type = "OrgDelete"
          /\ last'.records[1].status = "error"
          /\ last'.records[1].exception = MSG_DELETE_FAILED
          /\ history' = Append(history, Summary(last'.records[1]))
          /\ config'.created = config.created
          /\ config'.username = config.username
          /\ config'.org_id = config.org_id
          /\ config'.date_created = config.date_created
          /\ config'.instance_url = config.instance_url
          /\ config' = config ]_vars

\* a deletion failed on an org whose instance_url is known
C7_Witness ==
    /\ Returned("delete_org", 1)
    /\ last.raised = "ScratchOrgException"
    /\ config.created
    /\ config.username = "u@x.com"
    /\ config.org_id = "00Dxx"
    /\ config.instance_url = INSTANCE_URL
    /\ history[Len(history)] = [action_type |-> "OrgDelete", status |-> "error"]

\* C8: once a create_org that generated a temporary scratch definition has
\* returned or raised, that file no longer exists.
C8_TempFileRemoved ==
    (last.op = "create_org" /\ last.temp # <<>>) => last.temp[1] \notin tempfiles

\* C9: generate_password does not raise when the command gives a result:
\* on a non-zero return code it sets password_failed and returns, on zero
\* it changes nothing, and while password_failed is true it runs no command.
C9_GeneratePasswordBestEffort ==
    [][ (last'.op = "generate_password") =>
          /\ (last'.returncode # <<>>) => (last'.raised = "none")
          /\ (~config.password_failed /\ last'.returncode = <<1>>) =>
                config' = [config EXCEPT !.password_failed = TRUE]
          /\ (last'.returncode = <<0>>) => (config' = config)
          /\ config.password_failed =>
                /\ last'.events = <<>>
                /\ last'.raised = "none"
                /\ config' = config
          /\ history' = history
          /\ tempfiles' = tempfiles ]_vars

\* generate_password was called again after a failed attempt, and skipped
C9_Witness ==
    /\ last.op = "generate_password"
    /\ config.password_failed
    /\ last.events = <<>>
    /\ last.raised = "none"

\* C10: once password_failed is true no call sets it back to false, and no
\* call runs the password command.
C10_PasswordFailedSticky ==
    [][ config.password_failed =>
          /\ config'.password_failed
          /\ Occurrences(last'.events, CMD_PASSWORD) = 0 ]_vars

\* with password_failed set, the org was deleted and created again with
\* set_password requested: the password command did not run
C10_Witness ==
    /\ config.password_failed
    /\ config.set_password
    /\ config.created
    /\ config.org_id = "00Dxx"
    /\ last.op = "create_org"
    /\ last.raised = "none"
    /\ Occurrences(last.events, CMD_PASSWORD) = 0
    /\ Len(history) = 3
    /\ history[2] = [action_type |-> "OrgDelete", status |-> "success"]
    /\ history[3] = [action_type |-> "OrgCreate", status |-> "success"]

\* C11: in every state reached by create_org and delete_org calls that
\* return or raise, date_created is present if and only if created is true.
C11_DateCreatedIffCreated ==
    (config.date_created # <<>>) <=> config.created

\* the result object the create command printed in the last call
LastResult == dict_get(json_loads(last.stdout), "result")

\* the last call was a create_org whose commands all gave a result, the
\* create command ending with return code 0 and a JSON result object that
\* holds a non-null username and an orgId
CreateAccepted ==
    /\ Returned("create_org", 0)
    /\ last.raised # Fault.type
    /\ json_loads(last.stdout).t = "obj"
    /\ LastResult.t = "obj"
    /\ dict_has(LastResult, "username")
    /\ dict_get(LastResult, "username").t # "null"
    /\ dict_has(LastResult, "orgId")

\* the config field holds the value the command returned (null as None)
HoldsReturned(field, v) ==
    \/ v = JStr(field)
    \/ v = JNull /\ field = None

\* C12: a create_org with config_file set whose command ends with return
\* code 0 and a JSON result object holding a non-null username and an
\* orgId returns normally with org_id and username as returned,
\* date_created the current time, created true, and exactly one success
\* record handed to the history.
C12_CreateSucceeds ==
    CreateAccepted =>
        /\ Truthy(config.config_file)
        /\ last.raised = "none"
        /\ HoldsReturned(config.org_id, dict_get(LastResult, "orgId"))
        /\ HoldsReturned(config.username, dict_get(LastResult, "username"))
        /\ config.date_created = <<now>>
        /\ config.created
        /\ OneRecord("success")
        /\ last.records[1].action_type = "OrgCreate"
        /\ history[Len(history)] =
              [action_type |-> "OrgCreate", status |-> "success"]

\* an org was created from a snapshot definition, the command returning
\* both identity values
C12_Witness ==
    /\ CreateAccepted
    /\ last.stdout = OUT_OK
    /\ last.temp # <<>>
    /\ config.created
    /\ config.org_id = "00Dxx"
    /\ config.username = "u@x.com"

\* create_org finds no usable definition source in this config
NoUsableSource(cfg) ==
    \/ cfg.config_file \in {None, ""}
    \/ /\ cfg.use_snapshot_hashes
       /\ \/ cfg.snapshot_hashes = <<>>
          \/ /\ cfg.snapshot_hashes # <<>>
             /\ LET e == cfg.snapshot_hashes[Len(cfg.snapshot_hashes)]
                IN  e.SnapshotName \in {None, ""} \/ e.snapshot_hash \in {None, ""}

\* C13: a create_org that finds no usable definition source (config_file
\* unset, use_snapshot_hashes with an empty snapshot_hashes list, or a last
\* snapshot_hashes entry without a name or a hash) raises before any
\* command is run and without creating a temporary definition file.
C13_NoSourceRaisesEarly ==
    [][ (last'.op = "create_org" /\ NoUsableSource(config)) =>
          /\ last'.raised = "ScratchOrgException"
          /\ last'.msg \in {MSG_MISSING_CONFIG_FILE, MSG_HASHES_REQUIRED,
                            MSG_HASH_NO_NAME, MSG_HASH_NO_HASH}
          /\ last'.events = <<>>
          /\ last'.temp = <<>>
          /\ tempfiles' = tempfiles ]_vars

\* create_org raised over a snapshot_hashes list whose last entry has no
\* name, although an earlier entry is complete
C13_Witness ==
    /\ last.op = "create_org"
    /\ last.raised = "ScratchOrgException"
    /\ last.msg = MSG_HASH_NO_NAME
    /\ last.events = <<>>
    /\ config.use_snapshot_hashes
    /\ config.snapshot_hashes = <<HASH_BASE, HASH_NO_NAME>>
    /\ tempfiles = {}

\* C14: every failure create_org raises is raised only after an error
\* record of it was handed to the history; this includes the missing
\* config_file and the invalid snapshot reference.
C14_FatalErrorRecorded ==
    (last.op = "create_org" /\ last.raised = "ScratchOrgException") =>
        /\ Len(last.records) >= 1
        /\ last.records[Len(last.records)].status = "error"
        /\ last.records[Len(last.records)].exception = last.msg
        /\ Occurrences(last.events, EV_HISTORY) >= 1
        /\ Len(history) >= 1
        /\ history[Len(history)] =
              [action_type |-> "OrgCreate", status |-> "error"]

\* the parsed stdout encodes the "resource not found" condition
IsNotFound(o) ==
    /\ o.t = "obj"
    /\ dict_get(o, "message") = JStr("The requested resource does not exist")
    /\ dict_get(o, "name") = JStr("NOT_FOUND")

\* C16: a create_org whose command ends with a non-zero return code and a
\* stdout that is JSON for the "resource not found" condition raises the
\* devhub failure and hands exactly one record to the history, with that
\* failure's message; with any other stdout that parses as JSON it raises
\* the creation failure carrying the raw output, with exactly one record.
C16_NonZeroClassified ==
    (Returned("create_org", 1) /\ json_loads(last.stdout).t # "err") =>
        /\ last.raised = "ScratchOrgException"
        /\ OneRecord("error")
        /\ last.records[1].exception = last.msg
        /\ IF IsNotFound(json_loads(last.stdout))
           THEN last.msg = MSG_DEVHUB
           ELSE last.msg = FAILED_TO_CREATE_SCRATCH_ORG /\ last.detail = last.stdout

\* C17: created changes only in create_org and delete_org, and the
\* password command is run only while created is true, also when it is
\* create_org that runs it.
C17_PasswordOnlyWhenCreated ==
    [][ /\ (config'.created # config.created) =>
              last'.op \in {"create_org", "delete_org"}
        /\ (Occurrences(last'.events, CMD_PASSWORD) > 0) => config.created ]_vars

\* every event a comes before every event b in the call
Before(events, a, b) ==
    \A i, j \in DOMAIN events :
        (events[i] = a /\ events[j] = b) => i < j

\* C18: when an accepted create_org has set_password requested, the
\* password command is run after the success record is handed to the
\* history; when that command ends with a non-zero return code create_org
\* still returns normally with created true, org_id and username as
\* returned, date_created set, password_failed true and no further record.
C18_PasswordFailureKeepsCreation ==
    [][ (last'.op = "create_org" /\ CreateAccepted' /\ config.set_password) =>
          /\ ~config.password_failed =>
                /\ Occurrences(last'.events, CMD_PASSWORD) = 1
                /\ Occurrences(last'.events, EV_HISTORY) = 1
                /\ Before(last'.events, EV_HISTORY, CMD_PASSWORD)
                /\ last'.records[1].status = "success"
          /\ (~config.password_failed /\ config'.password_failed) =>
                /\ last'.raised = "none"
                /\ config'.created
                /\ HoldsReturned(config'.org_id, dict_get(LastResult', "orgId"))
                /\ HoldsReturned(config'.username, dict_get(LastResult', "username"))
                /\ Truthy(config'.username)
                /\ config'.date_created = <<now>>
                /\ Len(last'.records) = 1
                /\ history' = Append(history, [action_type |-> "OrgCreate",
                                               status |-> "success"]) ]_vars

\* an org was created and its immediate password failed
C18_Witness ==
    /\ CreateAccepted
    /\ last.stdout = OUT_OK
    /\ last.events = <<CMD_CREATE, EV_HISTORY, CMD_PASSWORD>>
    /\ last.raised = "none"
    /\ config.set_password
    /\ config.password_failed
    /\ config.created
    /\ config.org_id = "00Dxx"

\* C20: a create_org that raises at any step up to the classification of
\* the command's output (missing config_file, invalid snapshot reference,
\* non-zero return code, unparseable or malformed output, null username)
\* leaves org_id, username, date_created, created and password_failed as
\* they were, also on an org that is already created.
C20_RaisingCreateKeepsFields ==
    [][ ( /\ last'.op = "create_org"
          /\ last'.raised # "none"
          /\ Occurrences(last'.events, CMD_PASSWORD) = 0 ) =>
          /\ config'.org_id = config.org_id
          /\ config'.username = config.username
          /\ config'.date_created = config.date_created
          /\ config'.created = config.created
          /\ config'.password_failed = config.password_failed ]_vars

\* a second create_org raised over a null username on an org that an
\* earlier create_org had created
C20_Witness ==
    /\ Returned("create_org", 0)
    /\ last.stdout = OUT_USERNAME_NULL
    /\ last.raised = "ScratchOrgException"
    /\ config.created
    /\ config.org_id = "00Dxx"
    /\ config.username = "u@x.com"
    /\ config.date_created # <<>>
    /\ history = << [action_type |-> "OrgCreate", status |-> "success"] >>

\* date_created is set
Dated == config.date_created # <<>>

\* days as the properties take it: 1 while unset
DaysAsked == IF config.days = <<>> THEN 1 ELSE config.days[1]

\* now is later than date_created plus days
PastExpiry == Dated /\ now > config.date_created[1] + DaysAsked * TicksPerDay

\* C15: with date_created set or unset, days at least 1 and any current
\* time, expired holds iff date_created is set and now is later than
\* date_created plus days; active holds iff date_created is set and the org
\* is not expired; days_alive is the whole days from date_created to now,
\* rounded down, plus 1 when active, and None otherwise.
C15_AgingProperties ==
    /\ DaysAsked >= 1
    /\ (last.op = "expired") => (last.value = << PastExpiry >>)
    /\ (last.op = "active") => (last.value = << Dated /\ ~PastExpiry >>)
    /\ (last.op = "days_alive") =>
          IF Dated /\ ~PastExpiry
          THEN last.value =
                 << ((now - config.date_created[1]) \div TicksPerDay) + 1 >>
          ELSE last.value = <<>>
    /\ (last.op \in {"expired", "active", "days_alive"} /\ ~Dated) =>
          last.value \in { <<>>, <<FALSE>> }

\* expired was read at the very instant the org expires: it is not expired
C15_Witness ==
    /\ last.op = "expired"
    /\ last.value = <<FALSE>>
    /\ config.date_created = <<1>>
    /\ config.days = <<2>>
    /\ now = 1 + 2 * TicksPerDay

\* the elements of a sequence
Range(seq) == { seq[i] : i \in DOMAIN seq }

\* the definition document at the path passed with -f
ResolvedDef == last.files[last.args[2]]

\* C19: the built arguments hold the admin-email override exactly when
\* email_address is set and the resolved definition document, the one whose
\* path is passed with -f (the temporary snapshot definition with a
\* snapshot, the static config_file otherwise), declares no adminEmail.
C19_AdminEmailOverride ==
    (last.op = "_build_org_create_args") =>
        /\ last.args[1] = "-f"
        /\ (("adminEmail=" \o "admin@x.com") \in Range(last.args))
             <=> ( /\ config.email_address = "admin@x.com"
                   /\ "adminEmail" \notin ResolvedDef )
        /\ (config.email_address = None) =>
              (\A a \in Range(last.args) : a # ("adminEmail=" \o None))

\* the org is active and was not created after now
ActiveNow == Dated /\ ~PastExpiry /\ config.date_created[1] <= now

\* now is the very instant the org expires
AtExpiry == Dated /\ now = config.date_created[1] + DaysAsked * TicksPerDay

\* what format_org_days shows with this numerator
Shown(n) == ToString(n) \o "/" \o ToString(DaysAsked)

\* C21 as claimed: whenever an org is active, with date_created not after
\* now, days_alive is at least 1 and at most days, so format_org_days never
\* shows a numerator larger than days; the instant now = date_created +
\* days is included.
C21_DaysAliveWithinDays ==
    ActiveNow =>
        /\ (last.op = "days_alive") =>
              (last.value # <<>> /\ 1 <= last.value[1] /\ last.value[1] <= DaysAsked)
        /\ (last.op = "format_org_days") =>
              (last.value[1] \in { Shown(n) : n \in 1..DaysAsked })

\* C21 as amended: whenever an org is active, with date_created not after
\* now, days_alive is at least 1 and at most days, except at the instant
\* now = date_created + days, where the org is still active and days_alive
\* is days + 1; format_org_days shows that numerator over days.
C21_DaysAliveWithinDaysButAtExpiry ==
    ActiveNow =>
        /\ (last.op = "days_alive") =>
              /\ last.value # <<>>
              /\ 1 <= last.value[1]
              /\ IF AtExpiry
                 THEN last.value[1] = DaysAsked + 1
                 ELSE last.value[1] <= DaysAsked
        /\ (last.op = "format_org_days") =>
              IF AtExpiry
              THEN last.value[1] = Shown(DaysAsked + 1)
              ELSE last.value[1] \in { Shown(n) : n \in 1..DaysAsked }

\* the days of an org were displayed at the instant it expires
C21_Witness ==
    /\ last.op = "format_org_days"
    /\ last.value = << "3/2" >>
    /\ config.date_created = <<1>>
    /\ config.days = <<2>>
    /\ now = 1 + 2 * TicksPerDay

====
